---- MODULE Spec2Model ----
(***************************************************************************)
(* Model of src/intrusive_list.h (details::intrusive_list_node,            *)
(* intrusive_list) and src/signals.h (signal<void(Args...)>, its           *)
(* connection and its iterator_holder).                                    *)
(*                                                                         *)
(* One signal S and a pool of connection objects.  Node 0 is the list's    *)
(* sentinel end_, nodes 1..MaxConn are the connection objects.  An         *)
(* iterator_holder lives in the frame of a call of operator(), so the      *)
(* sequence "stack" is the C++ call stack restricted to operator() frames  *)
(* and a holder's address is its index in that sequence.                   *)
(***************************************************************************)
EXTENDS Integers, Sequences, FiniteSets

\* number of connection objects that can ever be constructed
MaxConn == 3
\* nesting depth of calls of operator() (1 = no reentrant emission)
MaxDepth == 2

\* the sentinel node intrusive_list::end_
end_ == 0
\* the null iterator_holder pointer
nullptr == 0

Conn == 1..MaxConn
Node == 0..MaxConn

VARIABLES
  prev,    \* intrusive_list_node::prev of every node
  next,    \* intrusive_list_node::next of every node
  sig,     \* connection::sig: TRUE = points to S, FALSE = nullptr
  slot,    \* connection::slot: the id of the stored callable, 0 = none
  st,      \* lifetime of each connection object: "none", "obj", "dead"
  alive,   \* lifetime of the signal S
  tail,    \* signal::tail: index of the top iterator_holder, or nullptr
  stack,   \* the operator() frames: the holder and the position in the loop
  rec,     \* history: whether the frames' observations are recorded
  hist,    \* history: what each frame of stack has observed so far
  severed, \* history: the connections that were live when ~signal ran
  uaf,     \* history: a member of S was read or written after ~signal
  exit     \* history: how the last step left operator(), "none" if it did not

vars == <<prev, next, sig, slot, st, alive, tail, stack, rec, hist, severed, uaf, exit>>

(***************************************************************************)
(* intrusive_list_node: pure operators on a heap h = [prev, next].         *)
(***************************************************************************)
Heap == [prev |-> prev, next |-> next]

quite_remove(h, n) ==
  [prev |-> [h.prev EXCEPT ![n] = n], next |-> [h.next EXCEPT ![n] = n]]

empty(h, n) == h.next[n] = n /\ h.prev[n] = n

\* makes n a self-loop and leaves its neighbours pointing to it
remove_no_unlink(h, n) == quite_remove(h, n)

\* next->prev = prev; prev->next = next; (in that order), then quite_remove
remove(h, n) ==
  LET p1 == IF empty(h, n) THEN h.prev ELSE [h.prev EXCEPT ![h.next[n]] = h.prev[n]]
      n1 == IF empty(h, n) THEN h.next ELSE [h.next EXCEPT ![p1[n]] = h.next[n]]
  IN quite_remove([prev |-> p1, next |-> n1], n)

\* next->prev = this; only
update_prev_only(h, n) == [prev |-> [h.prev EXCEPT ![h.next[n]] = n], next |-> h.next]

\* next->prev = this; prev->next = this;
update(h, n) ==
  LET p1 == [h.prev EXCEPT ![h.next[n]] = n]
      n1 == [h.next EXCEPT ![p1[n]] = n]
  IN [prev |-> p1, next |-> n1]

(***************************************************************************)
(* intrusive_list                                                          *)
(***************************************************************************)
begin(h) == h.next[end_]

\* splices n at it without unlinking it first
insert_no_unlink(h, it, n) ==
  LET h2 == [prev |-> [h.prev EXCEPT ![n] = h.prev[it]], next |-> h.next]
      h3 == [prev |-> h2.prev, next |-> [h2.next EXCEPT ![n] = it]]
  IN update(h3, n)

insert(h, it, n) ==
  LET h1 == remove(h, n)
      h2 == [prev |-> [h1.prev EXCEPT ![n] = h1.prev[it]], next |-> h1.next]
      h3 == [prev |-> h2.prev, next |-> [h2.next EXCEPT ![n] = it]]
  IN update(h3, n)

\* links n at the head
push_front(h, n) == insert(h, begin(h), n)

push_back(h, n) == insert(h, end_, n)

\* the iterator that insert(it, n) returns: iterator(node)
insert_result(h, it, n) == n

erase(h, it) == remove(h, it)

\* it = begin(); while (it != end()) erase(it++);   then ~end_
RECURSIVE list_dtor_loop(_, _, _)
list_dtor_loop(h, it, fuel) ==
  IF it = end_ \/ fuel = 0 THEN h
  ELSE list_dtor_loop(erase(h, it), h.next[it], fuel - 1)

\* leaves the elements linked
list_dtor_keep(h) == h

list_dtor(h) == remove(list_dtor_loop(h, begin(h), MaxConn + 1), end_)

\* the elements from begin() to end(), as an instrumented walk sees them
RECURSIVE walk(_, _, _)
walk(h, it, fuel) ==
  IF it = end_ \/ fuel = 0 THEN <<>>
  ELSE <<it>> \o walk(h, h.next[it], fuel - 1)

ListSeq(h) == walk(h, begin(h), MaxConn + 1)

(***************************************************************************)
(* signal::connection and signal::iterator_holder: pure operators on the   *)
(* program state s = [prev, next, sig, slot, stack, tail].                 *)
(***************************************************************************)
Prog == [prev |-> prev, next |-> next, sig |-> sig, slot |-> slot,
         stack |-> stack, tail |-> tail]

HeapOf(s) == [prev |-> s.prev, next |-> s.next]

WithHeap(s, h) == [s EXCEPT !.prev = h.prev, !.next = h.next]

\* for (cur = sig->tail; cur != nullptr; cur = cur->prev)
\*   if (this == &*cur->current) ++cur->current;
RECURSIVE advance_holders(_, _, _, _)
advance_holders(stk, cur, c, nx) ==
  IF cur = nullptr THEN stk
  ELSE advance_holders(
         IF stk[cur].current = c THEN [stk EXCEPT ![cur].current = nx] ELSE stk,
         stk[cur].prev, c, nx)

\* the same walk without the test this == &*cur->current
RECURSIVE advance_all(_, _, _)
advance_all(stk, cur, nxt) ==
  IF cur = nullptr THEN stk
  ELSE advance_all([stk EXCEPT ![cur].current = nxt[stk[cur].current]],
                   stk[cur].prev, nxt)

\* advances every holder
disconnect_all(s, c) ==
  IF ~s.sig[c] THEN s
  ELSE LET h == remove(HeapOf(s), c)
       IN [WithHeap(s, h) EXCEPT !.stack = advance_all(s.stack, s.tail, s.next),
                                 !.sig[c] = FALSE]

\* never resets sig and advances every holder
disconnect_sloppy(s, c) ==
  IF ~s.sig[c] THEN s
  ELSE [WithHeap(s, remove(HeapOf(s), c)) EXCEPT
          !.stack = advance_all(s.stack, s.tail, s.next)]

\* leaves the holders alone
disconnect_no_steer(s, c) ==
  IF ~s.sig[c] THEN s
  ELSE [WithHeap(s, remove(HeapOf(s), c)) EXCEPT !.sig[c] = FALSE]

disconnect(s, c) ==
  IF ~s.sig[c] THEN s
  ELSE LET h == remove(HeapOf(s), c)
       IN [WithHeap(s, h) EXCEPT
             !.stack = advance_holders(s.stack, s.tail, c, s.next[c]),
             !.sig[c] = FALSE]

\* connection(signal* sig, slot_t slot): the callable of connection n is n
connect(s, n) ==
  WithHeap([s EXCEPT !.sig[n] = TRUE, !.slot[n] = n], push_back(HeapOf(s), n))

\* links the new object at the tail of the list
move_construct_at_tail(s, o, n) ==
  LET s1 == [s EXCEPT !.slot[n] = s.slot[o], !.slot[o] = 0, !.sig[n] = s.sig[o]]
      h1 == update(HeapOf(s1), n)
      h2 == IF s1.sig[n] THEN push_back(h1, n) ELSE h1
  IN disconnect(WithHeap(s1, h2), o)

\* connection(connection&& other): n is the new object, o is other.
\* The base node of n is default-constructed; the moved-from callable of o
\* is left empty (o is idle afterwards and its callable is never invoked).
move_construct(s, o, n) ==
  LET s1 == [s EXCEPT !.slot[n] = s.slot[o], !.slot[o] = 0, !.sig[n] = s.sig[o]]
      h1 == update(HeapOf(s1), n)
      h2 == IF s1.sig[n] THEN insert(h1, h1.next[o], n) ELSE h1
  IN disconnect(WithHeap(s1, h2), o)

\* ~connection(): disconnect(), then ~slot, then ~intrusive_list_node()
connection_dtor(s, c) ==
  LET s1 == disconnect(s, c)
  IN WithHeap([s1 EXCEPT !.slot[c] = 0], remove(HeapOf(s1), c))

\* starts where the enclosing emission's cursor is
holder_init_at_tail(s) ==
  [prev |-> s.tail,
   current |-> IF s.tail = nullptr THEN begin(HeapOf(s)) ELSE s.stack[s.tail].current,
   sig |-> TRUE, pc |-> "loop"]

\* iterator_holder(signal* sig): the holder of the frame pushed on the stack
holder_init(s) ==
  [prev |-> s.tail, current |-> begin(HeapOf(s)), sig |-> TRUE, pc |-> "loop"]

\* nulls the back-pointer of the top holder only
null_top_holder(stk, cur) ==
  IF cur = nullptr THEN stk ELSE [stk EXCEPT ![cur].sig = FALSE]

\* ~signal(), first loop: while (tail != nullptr) { tail->sig = nullptr; ... }
RECURSIVE null_holders(_, _)
null_holders(stk, cur) ==
  IF cur = nullptr THEN stk
  ELSE null_holders([stk EXCEPT ![cur].sig = FALSE], stk[cur].prev)

\* leaves the owning-signal pointers of the connections alone
null_conns_skip(sg, h, it, fuel) == sg

\* ~signal(), second loop: for (it = begin(); it != end(); ++it) it->sig = nullptr
RECURSIVE null_conns(_, _, _, _)
null_conns(sg, h, it, fuel) ==
  IF it = end_ \/ fuel = 0 THEN sg
  ELSE null_conns([sg EXCEPT ![it] = FALSE], h, h.next[it], fuel - 1)

\* ~signal(): the body, then the members: ~intrusive_list()
signal_dtor(s) ==
  LET stk == null_holders(s.stack, s.tail)
      sg  == null_conns(s.sig, HeapOf(s), begin(HeapOf(s)), MaxConn + 1)
  IN WithHeap([s EXCEPT !.stack = stk, !.tail = nullptr, !.sig = sg],
              list_dtor(HeapOf(s)))

(***************************************************************************)
(* History kept beside the program state.  Each frame of stack has a       *)
(* record in hist:                                                         *)
(*   snap     the list when the call of operator() began                   *)
(*   called   the connections the call has invoked so far, in order        *)
(*   skip     connections disconnected during the call before it had       *)
(*            invoked them                                                 *)
(*   selfd    some connection was disconnected while this call was         *)
(*            invoking it                                                  *)
(*   addOpen  connections connected during the call while its cursor was   *)
(*            not at end()                                                 *)
(*   addEnd   connections connected during the call while its cursor was   *)
(*            at end()                                                     *)
(*   moved    a live connection was move-constructed from during the call  *)
(*   snapg    the callables of the connections of snap                     *)
(*   ran      the callables the call has invoked so far, in order          *)
(* When the signal is destroyed the records are reset, so that afterwards  *)
(* called holds the invocations made after the destruction.                *)
(***************************************************************************)
Range(q) == {q[i] : i \in DOMAIN q}

Top == Len(stack)

\* control is in user code: outside any emission, or inside a callable
UserCtx == IF stack = <<>> THEN TRUE ELSE stack[Top].pc = "call"

\* the connection object constructed next
Fresh == Cardinality({c \in Conn : st[c] # "none"}) + 1

\* the callables held by the connections of q
Callables(q) == [k \in DOMAIN q |-> slot[q[k]]]

NewHist(h) ==
  [snap |-> ListSeq(h), called |-> <<>>, skip |-> {}, selfd |-> FALSE,
   addOpen |-> {}, addEnd |-> {}, moved |-> FALSE,
   snapg |-> Callables(ListSeq(h)), ran |-> <<>>]

AfterDestroy ==
  [snap |-> <<>>, called |-> <<>>, skip |-> {}, selfd |-> FALSE,
   addOpen |-> {}, addEnd |-> {}, moved |-> FALSE,
   snapg |-> <<>>, ran |-> <<>>]

\* connection c stopped being live while the frames of hs were in progress
HistGone(hs, c) ==
  [i \in DOMAIN hs |->
     LET f == hs[i]
     IN [f EXCEPT !.skip  = IF c \in Range(f.called) THEN @ ELSE @ \cup {c},
                  !.selfd = IF f.called # <<>>
                            THEN @ \/ f.called[Len(f.called)] = c ELSE @]]

\* connection n was connected while the frames of hs were in progress
HistAdded(hs, n) ==
  [i \in DOMAIN hs |->
     [hs[i] EXCEPT !.addOpen = IF stack[i].current # end_ THEN @ \cup {n} ELSE @,
                   !.addEnd  = IF stack[i].current = end_ THEN @ \cup {n} ELSE @]]

HistMoved(hs) == [i \in DOMAIN hs |-> [hs[i] EXCEPT !.moved = TRUE]]

Apply(s) ==
  LET r == s
  IN /\ prev' = r.prev
     /\ next' = r.next
     /\ sig' = r.sig
     /\ slot' = r.slot
     /\ stack' = r.stack
     /\ tail' = r.tail

\* the observations become h when they are recorded
Record(h) == /\ hist' = IF rec THEN h ELSE hist
             /\ rec' = rec

InitProgram ==
  /\ prev = [n \in Node |-> n]
  /\ next = [n \in Node |-> n]
  /\ sig = [c \in Conn |-> FALSE]
  /\ slot = [c \in Conn |-> 0]
  /\ st = [c \in Conn |-> "none"]
  /\ alive = TRUE
  /\ tail = nullptr
  /\ stack = <<>>
  /\ hist = <<>>
  /\ severed = {}
  /\ uaf = FALSE
  /\ exit = "none"

\* the program alone
Init == InitProgram /\ rec = FALSE

\* the program with the observations of its emissions
InitObserved == InitProgram /\ rec = TRUE

(***************************************************************************)
(* Operations of user code (at top level or inside a callable).            *)
(***************************************************************************)
\* signal::connect(slt): the returned connection is constructed in place
Connect ==
  /\ UserCtx /\ alive /\ Fresh <= MaxConn
  /\ Apply(connect(Prog, Fresh))
  /\ st' = [st EXCEPT ![Fresh] = "obj"]
  /\ Record(HistAdded(hist, Fresh))
  /\ exit' = "none"
  /\ UNCHANGED <<alive, severed, uaf>>

\* c.disconnect()
Disconnect(c) ==
  /\ UserCtx /\ st[c] = "obj"
  /\ Apply(disconnect(Prog, c))
  /\ Record(IF sig[c] THEN HistGone(hist, c) ELSE hist)
  /\ uaf' = (uaf \/ (sig[c] /\ ~alive))
  /\ exit' = "none"
  /\ UNCHANGED <<st, alive, severed>>

\* the connection object c is destroyed
Destroy(c) ==
  /\ UserCtx /\ st[c] = "obj"
  /\ Apply(connection_dtor(Prog, c))
  /\ st' = [st EXCEPT ![c] = "dead"]
  /\ Record(IF sig[c] THEN HistGone(hist, c) ELSE hist)
  /\ uaf' = (uaf \/ (sig[c] /\ ~alive))
  /\ exit' = "none"
  /\ UNCHANGED <<alive, severed>>

\* connection n(std::move(o)) for a new object n
MoveConstruct(o) ==
  /\ UserCtx /\ st[o] = "obj" /\ Fresh <= MaxConn
  /\ Apply(move_construct(Prog, o, Fresh))
  /\ st' = [st EXCEPT ![Fresh] = "obj"]
  /\ Record(IF sig[o] THEN HistGone(HistMoved(hist), o) ELSE hist)
  /\ uaf' = (uaf \/ (sig[o] /\ ~alive))
  /\ exit' = "none"
  /\ UNCHANGED <<alive, severed>>

\* the signal is destroyed
DestroySignal ==
  /\ UserCtx /\ alive
  /\ Apply(signal_dtor(Prog))
  /\ alive' = FALSE
  /\ Record([i \in DOMAIN hist |-> AfterDestroy])
  /\ severed' = {c \in Conn : sig[c]}
  /\ exit' = "none"
  /\ UNCHANGED <<st, uaf>>

(***************************************************************************)
(* signal::operator()                                                      *)
(***************************************************************************)
\* entry: iterator_holder it(this)
Emit ==
  /\ UserCtx /\ alive /\ Top < MaxDepth
  /\ stack' = Append(stack, holder_init(Prog))
  /\ tail' = Top + 1
  /\ Record(Append(hist, NewHist(Heap)))
  /\ exit' = "none"
  /\ UNCHANGED <<prev, next, sig, slot, st, alive, severed, uaf>>

\* the frame on top leaves operator(): ~iterator_holder(), then the caller resumes
PopFrame ==
  /\ stack' = SubSeq(stack, 1, Top - 1)
  /\ Record(SubSeq(hist, 1, Top - 1))
  /\ tail' = IF stack[Top].sig THEN stack[Top].prev ELSE tail
  /\ uaf' = (uaf \/ (stack[Top].sig /\ ~alive))

\* invokes the callable and leaves the cursor where it is
Invoke_no_advance ==
  /\ stack # <<>> /\ stack[Top].pc = "loop"
  /\ stack[Top].current # end_
  /\ LET c == stack[Top].current
     IN /\ stack' = [stack EXCEPT ![Top].pc = "call"]
        /\ Record([hist EXCEPT ![Top].called = Append(@, c),
                               ![Top].ran = Append(@, slot[c])])
  /\ uaf' = (uaf \/ ~alive)
  /\ exit' = "none"
  /\ UNCHANGED <<prev, next, sig, slot, st, alive, severed, tail>>

\* loop test it.current != list.end() holds: (it.current++)->slot(args...)
Invoke ==
  /\ stack # <<>> /\ stack[Top].pc = "loop"
  /\ stack[Top].current # end_
  /\ LET c == stack[Top].current
     IN /\ stack' = [stack EXCEPT ![Top].current = next[c], ![Top].pc = "call"]
        /\ Record([hist EXCEPT ![Top].called = Append(@, c),
                               ![Top].ran = Append(@, slot[c])])
  /\ uaf' = (uaf \/ ~alive)
  /\ exit' = "none"
  /\ UNCHANGED <<prev, next, sig, slot, st, alive, severed, tail>>

\* loop test fails: operator() returns
LoopEnd ==
  /\ stack # <<>> /\ stack[Top].pc = "loop"
  /\ stack[Top].current = end_
  /\ PopFrame
  /\ exit' = "return"
  /\ UNCHANGED <<prev, next, sig, slot, st, alive, severed>>

\* the callable returns: if (!it.sig) return;
CallableReturns ==
  /\ stack # <<>> /\ stack[Top].pc = "call"
  /\ IF stack[Top].sig
       THEN /\ stack' = [stack EXCEPT ![Top].pc = "loop"]
            /\ exit' = "none"
            /\ UNCHANGED <<rec, hist, tail, uaf>>
       ELSE PopFrame /\ exit' = "destroyed"
  /\ UNCHANGED <<prev, next, sig, slot, st, alive, severed>>

\* the frame goes without ~iterator_holder()
CallableThrows_leak ==
  /\ stack # <<>> /\ stack[Top].pc = "call"
  /\ stack' = SubSeq(stack, 1, Top - 1)
  /\ Record(SubSeq(hist, 1, Top - 1))
  /\ exit' = "throw"
  /\ UNCHANGED <<prev, next, sig, slot, st, alive, severed, tail, uaf>>

\* the callable throws: the exception leaves operator()
CallableThrows ==
  /\ stack # <<>> /\ stack[Top].pc = "call"
  /\ PopFrame
  /\ exit' = "throw"
  /\ UNCHANGED <<prev, next, sig, slot, st, alive, severed>>

Next ==
  \/ Connect
  \/ \E c \in Conn : Disconnect(c)
  \/ \E c \in Conn : Destroy(c)
  \/ \E o \in Conn : MoveConstruct(o)
  \/ DestroySignal
  \/ Emit
  \/ Invoke
  \/ LoopEnd
  \/ CallableReturns
  \/ CallableThrows

Spec == Init /\ [][Next]_vars

\* The operations that the properties about the order of dispatch speak of.
\* ~connection() is left to Spec: on the list, the owning-signal pointers and
\* the holders it acts as disconnect() does (C8_DestructionOrder), and the
\* object it ends only takes operations away from the user.
NextDispatch ==
  \/ Connect
  \/ \E c \in Conn : Disconnect(c)
  \/ \E o \in Conn : MoveConstruct(o)
  \/ DestroySignal
  \/ Emit
  \/ Invoke
  \/ LoopEnd
  \/ CallableReturns
  \/ CallableThrows

SpecDispatch == InitObserved /\ [][NextDispatch]_vars

(***************************************************************************)
(* Vocabulary of the properties.                                           *)
(***************************************************************************)
Frames == DOMAIN stack

\* the connections frame i has still to visit: from its cursor to end()
Pending(i) == walk(Heap, stack[i].current, MaxConn + 1)

\* frame i is about to return normally: the loop test fails
AtEnd(i) == i = Top /\ stack[i].pc = "loop" /\ stack[i].current = end_

Live == {c \in Conn : sig[c]}

\* created by signal::connect (a move-constructed connection holds the
\* callable of another one)
ByConnect(c) == slot[c] = c

RECURSIVE SeqOfSet(_)
SeqOfSet(S) ==
  IF S = {} THEN <<>>
  ELSE LET m == CHOOSE x \in S : \A y \in S : x <= y
       IN <<m>> \o SeqOfSet(S \ {m})

RECURSIVE Without(_, _)
Without(q, S) ==
  IF q = <<>> THEN <<>>
  ELSE (IF q[1] \in S THEN <<>> ELSE <<q[1]>>) \o Without(Tail(q), S)

Occurrences(q, x) == Cardinality({k \in DOMAIN q : q[k] = x})

\* nothing was connected, disconnected before its turn or moved during frame i
Unmutated(i) ==
  /\ hist[i].skip = {} /\ hist[i].addOpen = {} /\ hist[i].addEnd = {}
  /\ ~hist[i].moved

\* the callables of frame i have not changed the signal at all
Clean(i) == Unmutated(i) /\ \A c \in Range(hist[i].called) : sig[c]

\* every node is reciprocally linked, the walk from begin() comes back to
\* end_, and what is not on that walk is idle
WellFormed ==
  LET l == ListSeq(Heap)
  IN /\ \A n \in Node : prev[next[n]] = n /\ next[prev[n]] = n
     /\ Cardinality(Range(l)) = Len(l)
     /\ (IF l = <<>> THEN next[end_] = end_ ELSE next[l[Len(l)]] = end_)
     /\ \A c \in Conn \ Range(l) : empty(Heap, c)

(***************************************************************************)
(* C1  Dispatch order = insertion order.  While the callables of an        *)
(* emission have not changed the signal and every live connection was      *)
(* created by connect, what the emission has invoked followed by what it   *)
(* has still to visit is the live connections in the order of their        *)
(* creation; so when it returns it has invoked each exactly once, in       *)
(* that order.                                                             *)
(***************************************************************************)
C1_DispatchOrder ==
  \A i \in Frames :
    (alive /\ Clean(i) /\ \A c \in Live : ByConnect(c))
      => /\ hist[i].called \o Pending(i) = SeqOfSet(Live)
         /\ (AtEnd(i) => hist[i].called = SeqOfSet(Live))

C1_Witness ==
  /\ Top = 1 /\ AtEnd(1) /\ Clean(1)
  /\ Live = {1, 2, 3} /\ \A c \in Live : ByConnect(c)
  /\ hist[1].called = <<1, 2, 3>>

(***************************************************************************)
(* C2  A connection disconnected during an emission before the emission    *)
(* has invoked it is never invoked by that emission, at any nesting        *)
(* level, and is on no list that a later emission walks; the others are    *)
(* still invoked in order: with nothing connected or moved meanwhile,      *)
(* invoked followed by pending is the starting list without the            *)
(* connections disconnected before their turn.                             *)
(***************************************************************************)
C2_DisconnectPending ==
  \A i \in Frames :
    LET todo == Pending(i)
    IN /\ hist[i].skip \cap Range(hist[i].called) = {}
       /\ hist[i].skip \cap Range(todo) = {}
       /\ hist[i].skip \cap Range(ListSeq(Heap)) = {}
       /\ (hist[i].addOpen = {} /\ hist[i].addEnd = {} /\ ~hist[i].moved /\ alive)
            => hist[i].called \o todo = Without(hist[i].snap, hist[i].skip)

C2_Witness ==
  /\ Top = 1 /\ AtEnd(1)
  /\ hist[1].snap = <<1, 2, 3>> /\ hist[1].skip = {2}
  /\ hist[1].called = <<1, 3>>

(***************************************************************************)
(* C3  Self-removal during dispatch.  When connections were disconnected   *)
(* while the emission was invoking them (and nothing else was changed      *)
(* before its turn), the emission still invokes every connection of the    *)
(* starting list once, in order, and the list it leaves behind is the      *)
(* starting list without the disconnected ones, in the original order.     *)
(***************************************************************************)
C3_SelfRemoval ==
  \A i \in Frames :
    (alive /\ hist[i].selfd /\ Unmutated(i))
      => /\ hist[i].called \o Pending(i) = hist[i].snap
         /\ ListSeq(Heap) = Without(hist[i].snap, Conn \ Live)
         /\ (AtEnd(i) => hist[i].called = hist[i].snap)

C3_Witness ==
  /\ Top = 1 /\ AtEnd(1) /\ hist[1].selfd /\ Unmutated(1)
  /\ hist[1].snap = <<1, 2, 3>> /\ hist[1].called = <<1, 2, 3>>
  /\ Live = {1, 3} /\ ListSeq(Heap) = <<1, 3>>

(***************************************************************************)
(* C4  As stated: every listener connected to S while an emission of S is  *)
(* in progress, and still connected, is invoked by that emission (it has   *)
(* been invoked or is still to be visited), whatever the position of the   *)
(* connecting callable.                                                    *)
(***************************************************************************)
C4_AsStated ==
  \A i \in Frames :
    \A n \in hist[i].addOpen \cup hist[i].addEnd :
      sig[n] => n \in Range(hist[i].called) \cup Range(Pending(i))

(***************************************************************************)
(* C4  As amended: a listener connected while an emission is in progress   *)
(* is invoked by that emission when the emission's cursor had not reached  *)
(* end() at the connect and the listener stays connected until its turn;   *)
(* a listener connected when the cursor was at end() (the connecting       *)
(* callable belongs to the last connection) is not invoked by it.          *)
(***************************************************************************)
C4_Amended ==
  \A i \in Frames :
    LET seen == Range(hist[i].called) \cup Range(Pending(i))
    IN /\ \A n \in hist[i].addOpen : sig[n] => n \in seen
       /\ \A n \in hist[i].addEnd : n \notin seen

C4_Witness ==
  /\ Top = 1 /\ AtEnd(1)
  /\ hist[1].snap = <<1, 2>> /\ hist[1].addOpen = {3}
  /\ hist[1].called = <<1, 2, 3>>

(***************************************************************************)
(* C5  Listeners connected during an emission are appended at the tail:    *)
(* with no connection moved meanwhile, invoked followed by pending is the  *)
(* starting list, then the listeners connected while the cursor was not    *)
(* at end() in the order of their connects, all without the connections    *)
(* disconnected before their turn.  So the emission invokes such a          *)
(* listener exactly once after the older ones, and never one that was      *)
(* connected when its cursor was at end().                                 *)
(***************************************************************************)
C5_ConnectDuringEmission ==
  LET l == ListSeq(Heap)
  IN \A i \in Frames :
       (alive /\ ~hist[i].moved)
         => /\ hist[i].called \o Pending(i) =
                 Without(hist[i].snap \o SeqOfSet(hist[i].addOpen), hist[i].skip)
            /\ \A n \in hist[i].addEnd : Occurrences(hist[i].called, n) = 0
            /\ \A n \in hist[i].addOpen \ hist[i].skip :
                 AtEnd(i) => Occurrences(hist[i].called, n) = 1
            /\ \A n \in (hist[i].addOpen \cup hist[i].addEnd) \cap Live :
                 \A k \in DOMAIN l :
                   l[k] = n => \A m \in k + 1 .. Len(l) : l[m] > n

\* B's callable re-emits; in the nested emission A's callable connects 3:
\* the nested cursor is at B, the outer cursor is already at end()
C5_Witness ==
  /\ Top = 2 /\ AtEnd(2)
  /\ hist[1].addEnd = {3} /\ hist[2].addOpen = {3}
  /\ hist[1].called = <<1, 2>> /\ hist[2].called = <<1, 2, 3>>
  /\ Pending(1) = <<>>

(***************************************************************************)
(* C6  Reentrant emission.  Every frame below the top one is suspended     *)
(* inside its callable.  While nothing has changed the list since the      *)
(* outer of two emissions began, the nested one walks the whole list from  *)
(* begin() with its own cursor, and the outer one keeps its own cursor:    *)
(* for each of them invoked followed by pending is the same list.          *)
(***************************************************************************)
C6_Reentrant ==
  \A i \in Frames : \A j \in Frames :
    i < j =>
      /\ stack[i].pc = "call"
      /\ (alive => hist[i].called # <<>>)
      /\ (alive /\ Clean(i))
           => /\ hist[j].snap = hist[i].snap
              /\ hist[j].called \o Pending(j) = hist[j].snap
              /\ hist[i].called \o Pending(i) = hist[i].snap
              /\ (AtEnd(j) => hist[j].called = ListSeq(Heap))

\* A(outer), A(nested), B(nested) have run and B(outer) is what is left
C6_Witness ==
  /\ Top = 2 /\ AtEnd(2) /\ Clean(1)
  /\ hist[1].snap = <<1, 2>>
  /\ hist[1].called = <<1>> /\ Pending(1) = <<2>>
  /\ hist[2].called = <<1, 2>>

(***************************************************************************)
(* C7  Signal destroyed during dispatch.  After ~signal every in-progress  *)
(* emission is inside its callable with its holder's back-pointer null,    *)
(* so it returns when the callable does; none is at the loop test, no      *)
(* callable can be invoked any more, and no member of the destroyed        *)
(* signal has been read or written.                                        *)
(***************************************************************************)
C7_DestroyedDuringDispatch ==
  /\ ~uaf
  /\ ~alive =>
       /\ \A i \in Frames : ~stack[i].sig /\ stack[i].pc = "call"
       /\ tail = nullptr
       /\ ~ENABLED Invoke

C7_Witness ==
  /\ ~alive /\ Top = 2 /\ severed # {}
  /\ ~stack[1].sig /\ ~stack[2].sig

(***************************************************************************)
(* C8  Either destruction order is safe.  After ~signal every connection   *)
(* that was live on it is idle (null owning-signal, prev == next == self)  *)
(* and disconnecting or destroying a connection changes nothing but the    *)
(* destroyed connection's own callable.  While the signal exists, a        *)
(* destroyed connection is not on its list and the list is well-formed.    *)
(* At any time, destroying a connection does what disconnecting it does    *)
(* and releases its callable.                                              *)
(***************************************************************************)
C8_DestructionOrder ==
  /\ \A c \in Conn :
       st[c] = "obj" =>
         connection_dtor(Prog, c) = [disconnect(Prog, c) EXCEPT !.slot[c] = 0]
  /\ ~alive =>
       /\ \A c \in severed : ~sig[c] /\ empty(Heap, c)
       /\ empty(Heap, end_)
       /\ \A c \in Conn :
            st[c] = "obj" =>
              /\ disconnect(Prog, c) = Prog
              /\ connection_dtor(Prog, c) = [Prog EXCEPT !.slot[c] = 0]
  /\ alive =>
       /\ WellFormed
       /\ \A c \in Conn : st[c] = "dead" => c \notin Range(ListSeq(Heap))

C8_Witness ==
  /\ ~alive
  /\ \E c \in severed : st[c] = "dead"
  /\ \E c \in severed : st[c] = "obj"

(***************************************************************************)
(* C9  Disconnect idempotence.  In every reachable state and for every     *)
(* connection, disconnecting twice gives the program state (list, owning-  *)
(* signal pointers, holders and their cursors) that disconnecting once     *)
(* gives, and disconnecting an idle connection changes nothing.            *)
(***************************************************************************)
C9_DisconnectIdempotent ==
  \A c \in Conn :
    st[c] = "obj" =>
      LET once == disconnect(Prog, c)
      IN /\ disconnect(once, c) = once
         /\ (~sig[c] \/ empty(Heap, c)) => once = Prog

\* a live connection under the cursor of both of two nested emissions
C9_Witness ==
  /\ Top = 2
  /\ \E c \in Conn :
       /\ st[c] = "obj" /\ sig[c]
       /\ stack[1].current = c /\ stack[2].current = c
       /\ disconnect(Prog, c).stack[1].current # c
       /\ disconnect(Prog, c) # Prog

(***************************************************************************)
(* C10  Connection invariant.  A connection is linked iff its owning-      *)
(* signal pointer is non-null, and the connections whose owning-signal is  *)
(* S are exactly the nodes reachable from S's sentinel.                    *)
(***************************************************************************)
C10_ConnectionInvariant ==
  /\ \A c \in Conn : sig[c] <=> ~empty(Heap, c)
  /\ Live = Range(ListSeq(Heap))
  /\ Cardinality(Live) = Len(ListSeq(Heap))
  /\ ~alive => Live = {}

\* inside an emission, after a move-construction and a disconnect
C10_Witness ==
  /\ stack # <<>>
  /\ \E c \in Live : ~ByConnect(c)
  /\ \E c \in Conn : st[c] = "obj" /\ ~sig[c] /\ ByConnect(c)
  /\ \E c \in Conn : st[c] = "dead"

(***************************************************************************)
(* C11  Cursor invariant.  While the signal exists, the cursor of every    *)
(* iterator holder on its stack references the sentinel or a connection    *)
(* object that exists, has a non-null owning-signal and is linked in the   *)
(* signal's list; the holders on the stack are exactly the frames.         *)
(***************************************************************************)
C11_CursorInvariant ==
  alive =>
    \A i \in Frames :
      LET c == stack[i].current
      IN /\ stack[i].sig
         /\ c = end_ \/ (st[c] = "obj" /\ sig[c] /\ ~empty(Heap, c)
                          /\ c \in Range(ListSeq(Heap)))

\* two nested emissions whose cursors were steered from a connection that
\* was moved from to the move-constructed one, beside a destroyed object
C11_Witness ==
  /\ alive /\ Top = 2
  /\ \E n \in Conn :
       /\ stack[1].current = n /\ stack[2].current = n
       /\ sig[n] /\ ~ByConnect(n)
  /\ \E c \in Conn : st[c] = "dead"

(***************************************************************************)
(* intrusive_list on its own: two lists, the one with sentinel end_ and    *)
(* another one, over the same pool of nodes.  The nodes are plain          *)
(* elements here: sig, slot and the holders play no part.                  *)
(***************************************************************************)
\* the sentinel of the other list
other_end == MaxConn + 1

Sentinels == {end_, other_end}

LNode == 0 .. MaxConn + 1

\* takes the links of o without repairing the neighbours
node_move_no_update(h, o, n) ==
  IF ~empty(h, o)
    THEN quite_remove([prev |-> [h.prev EXCEPT ![n] = h.prev[o]],
                       next |-> [h.next EXCEPT ![n] = h.next[o]]], o)
    ELSE quite_remove(h, n)

\* intrusive_list_node(intrusive_list_node&& other): n is the new node, o is other
node_move_construct(h, o, n) ==
  IF ~empty(h, o)
    THEN LET h1 == [prev |-> [h.prev EXCEPT ![n] = h.prev[o]],
                    next |-> [h.next EXCEPT ![n] = h.next[o]]]
         IN quite_remove(update(h1, n), o)
    ELSE quite_remove(h, n)

\* the elements of the list with sentinel e0, from begin() to end()
RECURSIVE walk_to(_, _, _, _)
walk_to(h, it, e0, fuel) ==
  IF it = e0 \/ fuel = 0 THEN <<>>
  ELSE <<it>> \o walk_to(h, h.next[it], e0, fuel - 1)

ListOf(h, e0) == walk_to(h, h.next[e0], e0, MaxConn + 2)

\* the lists that exist
LiveLists == IF alive THEN Sentinels ELSE {other_end}

\* the element nodes that exist
Elems == {e \in Conn : st[e] = "obj"}

ApplyHeap(h) ==
  /\ prev' = h.prev
  /\ next' = h.next
  /\ UNCHANGED <<sig, slot, tail, stack, rec, hist, severed, uaf, exit>>

InitList ==
  /\ prev = [n \in LNode |-> n]
  /\ next = [n \in LNode |-> n]
  /\ sig = [c \in Conn |-> FALSE]
  /\ slot = [c \in Conn |-> 0]
  /\ st = [c \in Conn |-> "none"]
  /\ alive = TRUE
  /\ tail = nullptr
  /\ stack = <<>>
  /\ rec = FALSE
  /\ hist = <<>>
  /\ severed = {}
  /\ uaf = FALSE
  /\ exit = "none"

\* an element is constructed: intrusive_list_node()
NodeConstruct ==
  /\ Fresh <= MaxConn
  /\ ApplyHeap(quite_remove(Heap, Fresh))
  /\ st' = [st EXCEPT ![Fresh] = "obj"]
  /\ UNCHANGED alive

\* an element is move-constructed from the element a
NodeMoveConstruct(a) ==
  /\ a \in Elems /\ Fresh <= MaxConn
  /\ ApplyHeap(node_move_construct(Heap, a, Fresh))
  /\ st' = [st EXCEPT ![Fresh] = "obj"]
  /\ UNCHANGED alive

\* the element e is destroyed: ~intrusive_list_node()
NodeDestroy(e) ==
  /\ e \in Elems
  /\ ApplyHeap(remove(Heap, e))
  /\ st' = [st EXCEPT ![e] = "dead"]
  /\ UNCHANGED alive

\* insert(pos, e) on the list with sentinel e0
ListInsert(e0, pos, e) ==
  /\ e0 \in LiveLists /\ e \in Elems
  /\ pos \in Range(ListOf(Heap, e0)) \cup {e0}
  /\ ApplyHeap(insert(Heap, pos, e))
  /\ UNCHANGED <<st, alive>>

\* push_back(e) on the list with sentinel end_
ListPushBack(e) ==
  /\ alive /\ e \in Elems
  /\ ApplyHeap(push_back(Heap, e))
  /\ UNCHANGED <<st, alive>>

\* erase(it) on the list with sentinel e0
ListErase(e0, it) ==
  /\ e0 \in LiveLists
  /\ it \in Range(ListOf(Heap, e0))
  /\ ApplyHeap(erase(Heap, it))
  /\ UNCHANGED <<st, alive>>

\* the list with sentinel end_ is destroyed: ~intrusive_list()
ListDestroy ==
  /\ alive
  /\ ApplyHeap(list_dtor(Heap))
  /\ alive' = FALSE
  /\ UNCHANGED st

NextList ==
  \/ NodeConstruct
  \/ \E a \in Conn : NodeMoveConstruct(a)
  \/ \E e \in Conn : NodeDestroy(e)
  \/ \E e0 \in Sentinels : \E pos \in LNode : \E e \in Conn : ListInsert(e0, pos, e)
  \/ \E e \in Conn : ListPushBack(e)
  \/ \E e0 \in Sentinels : \E it \in Conn : ListErase(e0, it)
  \/ ListDestroy

SpecList == InitList /\ [][NextList]_vars

\* q without repetition
NoDup(q) == Cardinality(Range(q)) = Len(q)

\* in the heap h every node is reciprocally linked, each of the lists in ls
\* is one cycle through its own sentinel and no other, no element is in two
\* lists, and every node outside the lists (the sentinel of a destroyed list
\* included) is idle
ListsWellFormed(h, ls) ==
  /\ \A n \in LNode : h.prev[h.next[n]] = n /\ h.next[h.prev[n]] = n
  /\ \A e0 \in ls :
       LET l == ListOf(h, e0)
       IN /\ NoDup(l)
          /\ Range(l) \subseteq Conn
          /\ (IF l = <<>> THEN h.next[e0] = e0 ELSE h.next[l[Len(l)]] = e0)
  /\ \A e0 \in ls : \A e1 \in ls :
       e0 # e1 => Range(ListOf(h, e0)) \cap Range(ListOf(h, e1)) = {}
  /\ \A n \in LNode :
       (n \notin ls /\ \A e0 \in ls : n \notin Range(ListOf(h, e0))) => empty(h, n)

(***************************************************************************)
(* C12  List well-formedness.  After any sequence of insert, push_back,    *)
(* erase, node construction, move-construction and destruction and list    *)
(* destruction, N.next.prev == N and N.prev.next == N for every node,      *)
(* every list is a single cycle through exactly one sentinel, every node   *)
(* in no list has prev == next == self, and the elements on the lists are  *)
(* nodes that exist.                                                       *)
(***************************************************************************)
C12_ListWellFormed ==
  /\ ListsWellFormed(Heap, LiveLists)
  /\ \A e0 \in LiveLists : Range(ListOf(Heap, e0)) \subseteq Elems

\* one list has been destroyed and an element is idle, while the other
\* list holds two elements, the younger one in front
C12_Witness ==
  /\ ~alive
  /\ ListOf(Heap, other_end) = <<3, 1>>
  /\ st[2] = "obj" /\ empty(Heap, 2)

\* q with e put in front of its element pos, or at the end when pos is not in q
RECURSIVE InsertBefore(_, _, _)
InsertBefore(q, pos, e) ==
  IF q = <<>> THEN <<e>>
  ELSE IF q[1] = pos THEN <<e>> \o q
  ELSE <<q[1]>> \o InsertBefore(Tail(q), pos, e)

\* the positions of the list with sentinel e0: its elements and end()
Positions(e0) == Range(ListOf(Heap, e0)) \cup {e0}

\* insert(pos, e) has re-homed e in the list with sentinel e0
Rehomed(e0, pos, e) ==
  LET r == insert(Heap, pos, e)
  IN /\ ListOf(r, e0) = InsertBefore(Without(ListOf(Heap, e0), {e}), pos, e)
     /\ \A e1 \in LiveLists \ {e0} :
          ListOf(r, e1) = Without(ListOf(Heap, e1), {e})
     /\ r.next[e] = pos /\ r.prev[pos] = e
     /\ insert_result(Heap, pos, e) = e
     /\ ListsWellFormed(r, LiveLists)

(***************************************************************************)
(* C13  As stated: for every list, every position pos of it (an element    *)
(* or end()) and every element e, idle or linked in any list, insert(pos,  *)
(* e) leaves e linked in that list immediately before pos, returns an      *)
(* iterator to e, and keeps the order of all other elements of every list. *)
(***************************************************************************)
C13_AsStated ==
  \A e0 \in LiveLists : \A pos \in Positions(e0) : \A e \in Elems :
    Rehomed(e0, pos, e)

(***************************************************************************)
(* C13  As amended: the same for every position pos other than e itself;   *)
(* insert(e, e) unlinks e and leaves it idle, in no list, the other         *)
(* elements keeping their order.                                           *)
(***************************************************************************)
C13_Amended ==
  \A e0 \in LiveLists : \A pos \in Positions(e0) : \A e \in Elems :
    IF pos # e
      THEN Rehomed(e0, pos, e)
      ELSE LET r == insert(Heap, pos, e)
           IN /\ r = remove(Heap, e)
              /\ empty(r, e)
              /\ ListOf(r, e0) = Without(ListOf(Heap, e0), {e})
              /\ ListsWellFormed(r, LiveLists)

\* element 3 is linked in the other list and insert(1, 3) brings it between
\* 2 and 1; the list <<2, 1>> itself was made by an insert in front of 1
C13_Witness ==
  /\ alive
  /\ ListOf(Heap, end_) = <<2, 1>>
  /\ ListOf(Heap, other_end) = <<3>>
  /\ ListOf(insert(Heap, 1, 3), end_) = <<2, 3, 1>>
  /\ ListOf(insert(Heap, 1, 3), other_end) = <<>>

\* q with every o replaced by n
Replace(q, o, n) == [k \in DOMAIN q |-> IF q[k] = o THEN n ELSE q[k]]

(***************************************************************************)
(* C14  Move-construction transfers membership.  Move-constructing a node  *)
(* B from a node A linked between X and Y (either may be a sentinel, and   *)
(* they may be the same node) leaves B between X and Y, reciprocally       *)
(* linked, A idle and every other link as it was, so B has A's place in    *)
(* A's list; move-constructing from an idle A leaves A and B idle and      *)
(* changes nothing else.                                                   *)
(***************************************************************************)
C14_MoveTransfersMembership ==
  \A a \in Elems :
    Fresh <= MaxConn =>
      LET b == Fresh
          x == prev[a]
          y == next[a]
          r == node_move_construct(Heap, a, b)
      IN IF empty(Heap, a)
           THEN /\ empty(r, a) /\ empty(r, b)
                /\ \A n \in LNode \ {a, b} :
                     r.prev[n] = prev[n] /\ r.next[n] = next[n]
           ELSE /\ r.prev[b] = x /\ r.next[b] = y
                /\ r.next[x] = b /\ r.prev[y] = b
                /\ empty(r, a)
                /\ \A n \in LNode \ {a, b, x, y} :
                     r.prev[n] = prev[n] /\ r.next[n] = next[n]
                /\ (x # y => r.prev[x] = prev[x] /\ r.next[y] = next[y])
                /\ \A e0 \in LiveLists :
                     ListOf(r, e0) = Replace(ListOf(Heap, e0), a, b)
                /\ ListsWellFormed(r, LiveLists)

\* node 2 is the only element of its list (X = Y = the sentinel) and is
\* moved to node 3, beside the idle node 1
C14_Witness ==
  /\ ListOf(Heap, other_end) = <<2>> /\ st[1] = "obj" /\ empty(Heap, 1)
  /\ Fresh = 3
  /\ ListOf(node_move_construct(Heap, 2, 3), other_end) = <<3>>
  /\ empty(node_move_construct(Heap, 1, 3), 3)

(***************************************************************************)
(* Move-assignment of nodes.                                               *)
(***************************************************************************)
\* a.swap(b): this is a, other is b; the assignments in the order of the code
swap(h, a, b) ==
  IF empty(h, a) /\ empty(h, b) THEN h
  ELSE IF empty(h, a) \/ empty(h, b)
    THEN LET empt     == IF empty(h, a) THEN a ELSE b
             not_empt == IF ~empty(h, a) THEN a ELSE b
             h1 == [prev |-> [h.prev EXCEPT ![empt] = h.prev[not_empt]],
                    next |-> [h.next EXCEPT ![empt] = h.next[not_empt]]]
         IN quite_remove(update(h1, empt), not_empt)
    ELSE LET h1 == [prev |-> [h.prev EXCEPT ![a] = h.prev[b], ![b] = h.prev[a]],
                    next |-> [h.next EXCEPT ![a] = h.next[b], ![b] = h.next[a]]]
         IN update(update(h1, a), b)

\* d = std::move(s): the temporary t is move-constructed from s, swapped
\* with d and destroyed
node_move_assign(h, d, s, t) ==
  IF s = d THEN h
  ELSE remove(swap(node_move_construct(h, s, t), t, d), t)

\* a node of ns, the nodes that exist, points to a node that does not exist
Dangling(h, ns) == \E n \in ns : h.prev[n] \notin ns \/ h.next[n] \notin ns

\* the elements and sentinels that exist
ListNodes == Elems \cup LiveLists

\* d = std::move(s) for two elements; following a dangling pointer is
\* undefined, so nothing is done once there is one
NodeMoveAssign(d, s) ==
  /\ ~Dangling(Heap, ListNodes)
  /\ d \in Elems /\ s \in Elems /\ Fresh <= MaxConn
  /\ ApplyHeap(node_move_assign(Heap, d, s, Fresh))
  /\ st' = [st EXCEPT ![Fresh] = IF s = d THEN @ ELSE "dead"]
  /\ UNCHANGED alive

NextListAssign ==
  \/ ~Dangling(Heap, ListNodes) /\ NextList
  \/ \E d \in Conn : \E s \in Conn : NodeMoveAssign(d, s)

SpecListAssign == InitList /\ [][NextListAssign]_vars

(***************************************************************************)
(* C15  Move-assignment transfers membership (as stated).  For every       *)
(* existing node D and every linked node S other than D, whatever D's      *)
(* state (idle, in another list, in S's list at any place, also next to    *)
(* S), D = std::move(S) leaves D in the place S had, S idle, D's former    *)
(* place without D, and every list a well-formed cycle; so every           *)
(* reachable heap is well-formed.                                          *)
(***************************************************************************)
C15_AsStated ==
  /\ ListsWellFormed(Heap, LiveLists)
  /\ \A d \in Elems : \A s \in Elems :
       (d # s /\ ~empty(Heap, s) /\ Fresh <= MaxConn) =>
         LET r == node_move_assign(Heap, d, s, Fresh)
         IN /\ \A e0 \in LiveLists :
                 ListOf(r, e0) = Replace(Without(ListOf(Heap, e0), {d}), s, d)
            /\ empty(r, s)
            /\ ListsWellFormed(r, LiveLists)

\* the same, for a destination that is not a neighbour of the source
C15_NotAdjacent ==
  \A d \in Elems : \A s \in Elems :
    (d # s /\ ~empty(Heap, s) /\ Fresh <= MaxConn
       /\ ListsWellFormed(Heap, LiveLists)
       /\ next[s] # d /\ prev[s] # d) =>
      LET r == node_move_assign(Heap, d, s, Fresh)
      IN /\ \A e0 \in LiveLists :
              ListOf(r, e0) = Replace(Without(ListOf(Heap, e0), {d}), s, d)
         /\ empty(r, s)
         /\ ListsWellFormed(r, LiveLists)

\* the list <<1, 2>>: assigning 1 = std::move(2) leaves the sentinel pointing
\* to node 1 while node 1 is a self-loop; assigning 2 = std::move(1) leaves
\* the sentinel pointing to the destroyed temporary and node 2 idle
C15_Witness ==
  /\ alive /\ ListOf(Heap, end_) = <<1, 2>> /\ Fresh = 3
  /\ LET r == node_move_assign(Heap, 1, 2, 3)
     IN r.next[end_] = 1 /\ r.prev[end_] = 1 /\ empty(r, 1) /\ empty(r, 2)
  /\ LET r == node_move_assign(Heap, 2, 1, 3)
     IN r.next[end_] = 3 /\ r.prev[end_] = 3 /\ empty(r, 3) /\ empty(r, 2)

\* WellFormed, of the heap h
WellFormedHeap(h) ==
  LET l == ListSeq(h)
  IN /\ \A n \in Node : h.prev[h.next[n]] = n /\ h.next[h.prev[n]] = n
     /\ NoDup(l)
     /\ (IF l = <<>> THEN h.next[end_] = end_ ELSE h.next[l[Len(l)]] = end_)
     /\ \A c \in Conn \ Range(l) : empty(h, c)

(***************************************************************************)
(* C17  Unlink-on-destroy.  In every reachable state, also inside a        *)
(* callable during an emission, destroying a linked node removes exactly   *)
(* that node: its former neighbours become adjacent, every other link is   *)
(* as before, the list is the old one without the node and is a            *)
(* well-formed cycle through the sentinel.  Destroying a live connection   *)
(* does this to the list, nulls only that connection's owning-signal and   *)
(* takes the connection, and nothing else, out of what every emission in   *)
(* progress has still to visit.                                            *)
(***************************************************************************)
C17_UnlinkOnDestroy ==
  \A c \in Conn :
    (st[c] = "obj" /\ ~empty(Heap, c)) =>
      LET x == prev[c]
          y == next[c]
          r == remove(Heap, c)
          q == connection_dtor(Prog, c)
      IN /\ r.next[x] = y /\ r.prev[y] = x /\ empty(r, c)
         /\ \A n \in Node \ {c, x, y} : r.prev[n] = prev[n] /\ r.next[n] = next[n]
         /\ (x # y => r.prev[x] = prev[x] /\ r.next[y] = next[y])
         /\ ListSeq(r) = Without(ListSeq(Heap), {c})
         /\ WellFormedHeap(r)
         /\ HeapOf(q) = r
         /\ q.sig = [sig EXCEPT ![c] = FALSE]
         /\ q.tail = tail
         /\ \A i \in Frames :
              /\ walk(r, q.stack[i].current, MaxConn + 1) = Without(Pending(i), {c})
              /\ q.stack[i].sig = stack[i].sig /\ q.stack[i].prev = stack[i].prev

\* inside a callable of a nested emission; connection 2 is between 1 and 3
\* and both cursors are at it
C17_Witness ==
  /\ alive /\ Top = 2 /\ ListSeq(Heap) = <<1, 2, 3>>
  /\ stack[1].current = 2 /\ stack[2].current = 2
  /\ ListSeq(HeapOf(connection_dtor(Prog, 2))) = <<1, 3>>
  /\ connection_dtor(Prog, 2).stack[1].current = 3

(***************************************************************************)
(* C16  Scoped iterator holder.  While the signal exists its holder stack  *)
(* is exactly the frames of the calls of operator() in progress: tail is   *)
(* the holder of the innermost call and every holder's prev is the holder  *)
(* of the call that encloses it, which is what tail was when the call was  *)
(* entered.  So after a call has been left, by return, by an exception or  *)
(* after the signal's destruction, the stack is what it was at its entry   *)
(* (empty after a top-level call); if the signal still exists the list is  *)
(* well-formed and a further emission starts as any other: at begin(),     *)
(* with the current tail below it.  After ~signal the stack is empty and   *)
(* no holder is attached.                                                  *)
(***************************************************************************)
C16_ScopedHolder ==
  /\ alive =>
       /\ tail = Top
       /\ \A i \in Frames : stack[i].sig /\ stack[i].prev = i - 1
       /\ (stack = <<>> => tail = nullptr)
  /\ ~alive => tail = nullptr /\ \A i \in Frames : ~stack[i].sig
  /\ exit \in {"return", "throw", "destroyed"} =>
       /\ UserCtx
       /\ exit = "destroyed" => ~alive
       /\ alive =>
            /\ WellFormed
            /\ holder_init(Prog).prev = Top
            /\ holder_init(Prog).current = begin(Heap)
            /\ Top < MaxDepth => ENABLED Emit

\* a nested call has just been left by an exception: the enclosing call is
\* still inside its callable, the list is not empty
C16_Witness ==
  /\ exit = "throw" /\ alive /\ Top = 1 /\ tail = 1
  /\ stack[1].pc = "call" /\ ListSeq(Heap) # <<>>

(***************************************************************************)
(* Move-assignment of connections.                                         *)
(***************************************************************************)
\* a.swap(b): the base nodes, then slot, then sig
connection_swap(s, a, b) ==
  [WithHeap(s, swap(HeapOf(s), a, b)) EXCEPT
     !.slot = [s.slot EXCEPT ![a] = s.slot[b], ![b] = s.slot[a]],
     !.sig  = [s.sig EXCEPT ![a] = s.sig[b], ![b] = s.sig[a]]]

\* c = std::move(d): the temporary t is move-constructed from d, swapped
\* with c and destroyed
move_assign(s, c, d, t) ==
  IF d = c THEN s
  ELSE connection_dtor(connection_swap(move_construct(s, d, t), t, c), t)

\* c = sig.connect(g): r is the connection that connect returns, destroyed
\* at the end of the statement
assign_connect(s, c, r, t) == connection_dtor(move_assign(connect(s, r), c, r, t), r)

\* the nodes that exist
ProgNodes == Elems \cup (IF alive THEN {end_} ELSE {})

\* a node or a holder of the existing signal points to a node that does not
\* exist
DanglingProg ==
  alive /\ (\/ Dangling(Heap, ProgNodes)
            \/ \E i \in Frames : stack[i].current \notin ProgNodes)

\* c = std::move(d); following a dangling pointer is undefined, so nothing
\* is done once there is one
MoveAssign(c, d) ==
  /\ ~DanglingProg
  /\ UserCtx /\ st[c] = "obj" /\ st[d] = "obj" /\ Fresh <= MaxConn
  /\ Apply(move_assign(Prog, c, d, Fresh))
  /\ st' = [st EXCEPT ![Fresh] = IF d = c THEN @ ELSE "dead"]
  /\ exit' = "none"
  /\ UNCHANGED <<alive, rec, hist, severed, uaf>>

\* c = sig.connect(g)
AssignConnect(c) ==
  /\ ~DanglingProg
  /\ UserCtx /\ alive /\ st[c] = "obj" /\ Fresh + 1 <= MaxConn
  /\ Apply(assign_connect(Prog, c, Fresh, Fresh + 1))
  /\ st' = [st EXCEPT ![Fresh] = "dead", ![Fresh + 1] = "dead"]
  /\ exit' = "none"
  /\ UNCHANGED <<alive, rec, hist, severed, uaf>>

NextAssign ==
  \/ ~DanglingProg /\ Next
  \/ \E c \in Conn : \E d \in Conn : MoveAssign(c, d)
  \/ \E c \in Conn : AssignConnect(c)

SpecAssign == Init /\ [][NextAssign]_vars

\* the program state r is consistent, with c live holding the callable g,
\* and the callable old is held by no live connection
Reassigned(r, c, g, old) ==
  /\ r.sig[c] /\ r.slot[c] = g
  /\ \A x \in Conn : r.sig[x] => r.slot[x] # old
  /\ WellFormedHeap(HeapOf(r))
  /\ Range(ListSeq(HeapOf(r))) = {x \in Conn : r.sig[x]}
  /\ \A x \in Conn : r.sig[x] => (x = c \/ x = Fresh \/ st[x] = "obj")
  /\ \A i \in Frames : r.stack[i].current \in Range(ListSeq(HeapOf(r))) \cup {end_}

(***************************************************************************)
(* C18  Reassigning a connection by move-assignment (as stated).  For a    *)
(* connection c live on the existing signal S, after c = S.connect(g), or  *)
(* after c = std::move(d) for any other connection d live on S, c is live  *)
(* on S holding the moved-in callable, the source is idle, c's previous    *)
(* callable is connected no more, and the list is a well-formed cycle of   *)
(* exactly the connections whose owning-signal is S, which a following     *)
(* emission walks once from begin() to end(); so every reachable state     *)
(* has such a list.                                                        *)
(***************************************************************************)
C18_AsStated ==
  alive =>
    /\ WellFormed
    /\ Live = Range(ListSeq(Heap))
    /\ \A c \in Live :
         /\ Fresh + 1 <= MaxConn =>
              Reassigned(assign_connect(Prog, c, Fresh, Fresh + 1), c, Fresh, slot[c])
         /\ \A d \in Live \ {c} :
              Fresh <= MaxConn =>
                LET r == move_assign(Prog, c, d, Fresh)
                IN Reassigned(r, c, slot[d], slot[c]) /\ ~r.sig[d]

\* c is the only connection: c = S.connect(g) leaves the sentinel pointing
\* to c while c is a self-loop with a non-null owning-signal
C18_Witness ==
  /\ alive /\ stack = <<>> /\ ListSeq(Heap) = <<1>> /\ Fresh = 2
  /\ LET r == assign_connect(Prog, 1, 2, 3)
     IN /\ r.sig[1] /\ r.slot[1] = 2
        /\ r.next[end_] = 1 /\ r.prev[end_] = 1
        /\ r.next[1] = 1 /\ r.prev[1] = 1

(***************************************************************************)
(* C19  Move-constructing connection N from a live connection O hands the  *)
(* subscription over in place: N is live at O's list position holding O's  *)
(* callable, O is idle, and every holder whose cursor was at O is at N,    *)
(* the other cursors staying where they were.  So in an emission during    *)
(* which connections were only moved (nothing connected, no callable       *)
(* disconnected), the callables invoked so far followed by the callables   *)
(* of the pending connections are the callables of the starting list, in   *)
(* order: a callable moved while pending is invoked exactly once in its    *)
(* place, and one moved after it was invoked is not invoked again.         *)
(***************************************************************************)
C19_MoveInPlace ==
  /\ \A o \in Live :
       (alive /\ st[o] = "obj" /\ Fresh <= MaxConn) =>
         LET n == Fresh
             r == move_construct(Prog, o, n)
         IN /\ r.sig[n] /\ r.slot[n] = slot[o]
            /\ ~r.sig[o] /\ empty(HeapOf(r), o)
            /\ ListSeq(HeapOf(r)) = Replace(ListSeq(Heap), o, n)
            /\ \A i \in Frames :
                 r.stack[i].current = IF stack[i].current = o THEN n
                                      ELSE stack[i].current
  /\ \A i \in Frames :
       (/\ alive /\ hist[i].addOpen = {} /\ hist[i].addEnd = {}
        /\ {slot[c] : c \in Live} = Range(hist[i].snapg))
         => /\ hist[i].ran \o Callables(Pending(i)) = hist[i].snapg
            /\ (AtEnd(i) => hist[i].ran = hist[i].snapg)

\* the callable of 1 has moved the pending connection 2 into 3, and the
\* emission has invoked 3 with the callable of 2
C19_Witness ==
  /\ Top = 1 /\ AtEnd(1) /\ hist[1].moved
  /\ hist[1].snap = <<1, 2>> /\ hist[1].called = <<1, 3>>
  /\ hist[1].ran = <<1, 2>> /\ ListSeq(Heap) = <<1, 3>>

(***************************************************************************)
(* Emission without re-entry, with callables that return.  A connection    *)
(* returned by connect may be constructed in the storage of a destroyed    *)
(* one, so that a program can go on connecting for ever.                   *)
(***************************************************************************)
\* signal::connect(slt), the returned connection constructed in the storage
\* of the destroyed connection c
ConnectReuse(c) ==
  /\ UserCtx /\ alive /\ st[c] = "dead"
  /\ Apply(connect(Prog, c))
  /\ st' = [st EXCEPT ![c] = "obj"]
  /\ Record(HistAdded(hist, c))
  /\ exit' = "none"
  /\ UNCHANGED <<alive, severed, uaf>>

\* operator() called from outside any callable
EmitTop == stack = <<>> /\ Emit

\* a listener is connected
ConnectStep == Connect \/ \E c \in Conn : ConnectReuse(c)

NextReturns ==
  \/ ConnectStep
  \/ \E c \in Conn : Disconnect(c)
  \/ \E c \in Conn : Destroy(c)
  \/ \E c \in Conn : MoveConstruct(c)
  \/ DestroySignal
  \/ EmitTop
  \/ Invoke
  \/ LoopEnd
  \/ CallableReturns

\* the loop of operator() goes on and every callable returns
SpecReturns ==
  /\ Init /\ [][NextReturns]_vars
  /\ WF_vars(Invoke) /\ WF_vars(LoopEnd) /\ WF_vars(CallableReturns)

(***************************************************************************)
(* C20  As stated: every call of operator() eventually returns, provided   *)
(* each callable returns and no callable re-enters the signal, even when   *)
(* callables connect new listeners and disconnect existing ones.           *)
(***************************************************************************)
C20_AsStated == (stack # <<>>) ~> (stack = <<>>)

(***************************************************************************)
(* C20  As amended: every call of operator() eventually returns, provided  *)
(* each callable returns, no callable re-enters the signal and only        *)
(* finitely many listeners are connected during the call; callables may    *)
(* disconnect, destroy and move connections as they like.                  *)
(***************************************************************************)
C20_Amended == []<><<ConnectStep>>_vars \/ ((stack # <<>>) ~> (stack = <<>>))

\* inside the callable of 3, with the cursor at 1, which was connected in
\* the storage of the first connection: connecting one more listener makes
\* what the emission has still to visit longer
C20_Witness ==
  /\ alive /\ Top = 1 /\ stack[1].pc = "call" /\ stack[1].current = 1
  /\ ListSeq(Heap) = <<3, 1>> /\ st[2] = "dead"
  /\ LET r == connect(Prog, 2)
     IN walk(HeapOf(r), r.stack[1].current, MaxConn + 1) = <<1, 2>>

====
